---- MODULE Spec2Model ----
(***************************************************************************)
(* The ordered robin-hood hash map of rhh.ts: one flat array `entries` of  *)
(* CAPACITY + OVERFLOW slots, the counter `len`, and the operations get,   *)
(* put, getOrPut and del.                                                  *)
(*                                                                         *)
(* Keys are JavaScript strings of single-byte characters, modelled as      *)
(* sequences of numbers in 0..255; values are strings, modelled as the     *)
(* numbers 1..NumValues, with NoValue standing for `undefined`.            *)
(* Every slot of `entries` is a reference to an object {key, value}: a     *)
(* slot is the record [key, value, obj], where two slots with the same     *)
(* `obj` are the same object (a write through one is seen through the      *)
(* other).                                                                 *)
(*                                                                         *)
(* CAPACITY is a constant of the source (1 << 24).  It is carried in a     *)
(* variable that is set at construction and never changes, so that the     *)
(* same operators serve the small table of Spec, the real constant in      *)
(* SpecHash and the larger table of SpecOverflow.  SHIFT and OVERFLOW are  *)
(* derived from it as in the source.                                       *)
(*                                                                         *)
(* `ref` is a reference map that is given the same calls as the table      *)
(* when it is switched on at construction: a set of key-value pairs that   *)
(* holds at most CAPACITY keys, with the set of keys put since it was      *)
(* last empty.  It is not part of rhh.ts.                                  *)
(***************************************************************************)
EXTENDS Integers, Sequences, FiniteSets, TLC

VARIABLES CAPACITY, entries, len, op, arg, val, ret, probe, ref

vars == <<CAPACITY, entries, len, op, arg, val, ret, probe, ref>>

(***************************************************************************)
(* Bounds of the model.                                                    *)
(***************************************************************************)
\* log2 of the capacity of the table explored by Spec.
LogCapacity == 2
\* Number of distinct values put stores.
NumValues == 2
\* Longest key given to hash and hashToIndex in SpecHash.
MaxHashKeyLen == 3
\* log2 of the capacity of the table explored by SpecOverflow.
OverflowLogCapacity == 6

\* log2 of the capacity the source sets: CAPACITY = 1 << 24.
SourceLogCapacity == 24

(***************************************************************************)
(* Keys and their comparison.                                              *)
(***************************************************************************)
\* "\xff\xff\xff\xff"
EMPTY_KEY == <<255, 255, 255, 255>>

\* `undefined`: the value of an entry that has a key and no value yet.
NoValue == 0

Values == 1..NumValues

Min(S) == CHOOSE x \in S : \A y \in S : x <= y

\* a < b for strings: the first differing character decides, and a proper
\* prefix is smaller.
KeyLess(a, b) ==
  \E i \in 1..(Len(b)) :
    /\ \A j \in 1..(i - 1) : j <= Len(a) /\ a[j] = b[j]
    /\ \/ i > Len(a)
       \/ (i <= Len(a) /\ a[i] < b[i])

\* a >= b for strings.
KeyGeq(a, b) == ~KeyLess(a, b)

\* A key no byte of which is the reserved 0xFF.
Legal(k) == \A i \in 1..Len(k) : k[i] \in 0..254

Prefixes(s) == {SubSeq(s, 1, n) : n \in 0..Len(s)}

\* The keys Spec calls the operations with: "", "\x00" and "\x00\x00", which
\* hash to 0 and differ only in length; "A" and "A\xfe", with a larger first
\* byte; and "\x80", whose first byte has its top bit set.
Seeds == {<<0, 0>>, <<65, 254>>, <<128>>}

Keys == UNION {Prefixes(s) : s \in Seeds}

(***************************************************************************)
(* Constants derived from CAPACITY.                                        *)
(***************************************************************************)
RECURSIVE Log2(_)
\* Math.floor(Math.log2(n)) for n >= 1.
Log2(n) == IF n <= 1 THEN 0 ELSE 1 + Log2(n \div 2)

RECURSIVE Pow2(_)
Pow2(n) == IF n = 0 THEN 1 ELSE 2 * Pow2(n - 1)

SHIFT == 31 - Log2(CAPACITY) + 1

\* (CAPACITY / 10 + (31 - SHIFT + 1)) << 1: the operand of << is truncated
\* to an integer, and the second summand is an integer.
OVERFLOW == ((CAPACITY \div 10) + (31 - SHIFT + 1)) * 2

\* entries.length
Length == CAPACITY + OVERFLOW

(***************************************************************************)
(* hash and hashToIndex, in 32-bit signed arithmetic.                      *)
(***************************************************************************)
\* key.charCodeAt(n) | 0: NaN past the end of the string, which | 0 makes 0.
charCodeAt(key, n) == IF n < Len(key) THEN key[n + 1] ELSE 0

\* c << 24 for a byte c: bit 7 of c becomes the sign bit.
Shl24(c) == (IF c >= 128 THEN c - 256 ELSE c) * 16777216

\* The four operands of | occupy disjoint bits, so | adds them.
hash(key) ==
  Shl24(charCodeAt(key, 0))
    + charCodeAt(key, 1) * 65536
    + charCodeAt(key, 2) * 256
    + charCodeAt(key, 0)

\* h >> n for a 32-bit h and 0 <= n <= 31: the arithmetic right shift, which
\* keeps the sign (the quotient rounded down).
Sar(h, n) == IF n < 31 THEN h \div (2^n) ELSE IF h < 0 THEN -1 ELSE 0

hashToIndex(h) == Sar(h, SHIFT)

\* The slot at which the probe for key k starts.
idealBucket(k) == hashToIndex(hash(k))

(***************************************************************************)
(* The table.                                                              *)
(***************************************************************************)
\* { key: EMPTY_KEY } at every index, each slot an object of its own.
EmptyTable(n) == [i \in 0..(n - 1) |-> [key |-> EMPTY_KEY, value |-> NoValue, obj |-> i]]

\* entries[i] is undefined (and reading its key throws a TypeError) outside
\* of the array.
InRange(es, i) == i \in DOMAIN es

\* Names each object by the first slot that refers to it.
Canonical(es) ==
  IF Cardinality({es[i].obj : i \in DOMAIN es}) = Cardinality(DOMAIN es)
  THEN [i \in DOMAIN es |-> [es[i] EXCEPT !.obj = i]]
  ELSE [i \in DOMAIN es |->
          [es[i] EXCEPT !.obj = Min({j \in DOMAIN es : es[j].obj = es[i].obj})]]

\* The name of an object created by the call, which no slot referred to
\* before: { key } in getOrPut, { key: EMPTY_KEY } in del.
Fresh(es) == Cardinality(DOMAIN es)

Occupied(es) == {i \in DOMAIN es : es[i].key # EMPTY_KEY}

\* What a call returned or threw.  kind is "value" (get and del returning
\* entry.value), "null", "void" (put), "result" (getOrPut's {exists, index}),
\* "MapFull" (the Error getOrPut throws) or "TypeError" (reading the key of
\* an undefined slot).  index is the slot the call ended at: the slot of the
\* key for get, put and getOrPut, the final value of i for del.
Ret(kind, value, exists, index) ==
  [kind |-> kind, value |-> value, exists |-> exists, index |-> index, at |-> index,
   seq |-> <<>>]

\* The same for del, which also reports the slot it found the key at.
RetDel(kind, value, at, index) ==
  [kind |-> kind, value |-> value, exists |-> TRUE, index |-> index, at |-> at,
   seq |-> <<>>]

NoRet == Ret("none", NoValue, FALSE, 0)

(***************************************************************************)
(* get                                                                     *)
(***************************************************************************)
RECURSIVE getLoop(_, _, _)
getLoop(es, key, i) ==
  IF ~InRange(es, i) THEN Ret("TypeError", NoValue, FALSE, i)
  ELSE IF KeyGeq(es[i].key, key)
       THEN IF es[i].key = key
            THEN Ret("value", es[i].value, TRUE, i)
            ELSE Ret("null", NoValue, FALSE, i)
       ELSE getLoop(es, key, i + 1)

get(es, key) == getLoop(es, key, hashToIndex(hash(key)))

(***************************************************************************)
(* getOrPut and put                                                        *)
(***************************************************************************)
\* The result of a call that may change the table: what it returns or throws,
\* and the table and len it leaves.
Outcome(r, es, n) == [ret |-> r, entries |-> es, len |-> n]

\* A getOrPut that reports the last slot it wrote.
ResultIndexLastWritten(insertedAt, i) == i

\* insertedAt !== undefined ? insertedAt : i
ResultIndex(insertedAt, i) == IF insertedAt # -1 THEN insertedAt ELSE i

RECURSIVE getOrPutLoop(_, _, _, _, _, _)
\* The while loop of getOrPut: `it` is the carried entry, insertedAt is -1
\* while undefined.
getOrPutLoop(es, n, key, it, i, insertedAt) ==
  IF ~InRange(es, i) THEN Outcome(Ret("TypeError", NoValue, FALSE, i), es, n)
  ELSE
    LET entry == es[i] IN
    IF KeyGeq(entry.key, key)
    THEN IF entry.key = key
         THEN Outcome(Ret("result", NoValue, TRUE, i), es, n)
         ELSE LET es1 == [es EXCEPT ![i] = it] IN
              IF entry.key = EMPTY_KEY
              THEN Outcome(Ret("result", NoValue, FALSE,
                               ResultIndex(insertedAt, i)),
                           es1, n + 1)
              ELSE getOrPutLoop(es1, n, key, entry, i + 1,
                                IF insertedAt = -1 THEN i ELSE insertedAt)
    ELSE getOrPutLoop(es, n, key, it, i + 1, insertedAt)

\* An off-by-one fullness test: len > CAPACITY.
MapIsFullOffByOne(n) == n > CAPACITY

\* if (len >= CAPACITY) throw new Error("The map is full.")
MapIsFull(n) == n >= CAPACITY

getOrPut(es, n, key) ==
  IF MapIsFull(n) THEN Outcome(Ret("MapFull", NoValue, FALSE, 0), es, n)
  ELSE getOrPutLoop(es, n, key,
                    [key |-> key, value |-> NoValue, obj |-> Fresh(es)],
                    hashToIndex(hash(key)), -1)

\* entries[index].key = key; entries[index].value = value: a write to the
\* object slot `index` refers to.
WriteEntry(es, index, key, value) ==
  [i \in DOMAIN es |->
     IF es[i].obj = es[index].obj
     THEN [es[i] EXCEPT !.key = key, !.value = value]
     ELSE es[i]]

put(es, n, key, value) ==
  LET r == getOrPut(es, n, key) IN
  IF r.ret.kind # "result" THEN r
  ELSE Outcome(Ret("void", NoValue, r.ret.exists, r.ret.index),
               WriteEntry(r.entries, r.ret.index, key, value), r.len)

(***************************************************************************)
(* del                                                                     *)
(***************************************************************************)
RECURSIVE delFind(_, _, _)
\* The first loop of del: the index of the entry to delete, -1 for "return
\* null", -2 for a read outside of the array.
delFind(es, key, i) ==
  IF ~InRange(es, i) THEN -2
  ELSE IF KeyGeq(es[i].key, key)
       THEN IF es[i].key # key THEN -1 ELSE i
       ELSE delFind(es, key, i + 1)

\* A shift that stops at the sentinel alone, whatever the ideal bucket of the
\* next entry.
ShiftStopsAtSentinel(es, i) == es[i + 1].key = EMPTY_KEY

\* if (i < j || entries[i + 1].key === EMPTY_KEY): the backward shift stops.
\* A del that never shifts: it clears the slot of the deleted key.
ShiftStopsAtOnce(es, i) == TRUE

ShiftStops(es, i) ==
  \/ i < hashToIndex(hash(es[i + 1].key))
  \/ es[i + 1].key = EMPTY_KEY

RECURSIVE delShift(_, _)
\* The second loop of del: the table after the shift and the index i the
\* loop is left with; ok is FALSE when entries[i + 1] is read outside of the
\* array, after the assignments made so far.
delShift(es, i) ==
  IF ~InRange(es, i + 1) THEN [ok |-> FALSE, entries |-> es, i |-> i]
  ELSE LET es1 == [es EXCEPT ![i] = es[i + 1]] IN
       IF ShiftStops(es, i)
       THEN [ok |-> TRUE, entries |-> es1, i |-> i]
       ELSE delShift(es1, i + 1)

\* entries[i] = { key: EMPTY_KEY }
\* A del that marks the slot empty and leaves its value behind.
ClearGapKeepsValue(es, i) ==
  [es EXCEPT ![i] = [key |-> EMPTY_KEY, value |-> es[i].value, obj |-> Fresh(es)]]

ClearGap(es, i) ==
  [es EXCEPT ![i] = [key |-> EMPTY_KEY, value |-> NoValue, obj |-> Fresh(es)]]

\* A del that forgets len -= 1.
delFinishKeepsLen(es, n, at, i, value) ==
  Outcome(RetDel("value", value, at, i), ClearGap(es, i), n)

\* entries[i] = { key: EMPTY_KEY }; len -= 1; return value
\* A del that leaves the copy in slot i and clears slot i + 1.
delFinishGapAfter(es, n, at, i, value) ==
  Outcome(RetDel("value", value, at, i), ClearGap(es, i + 1), n - 1)

delFinish(es, n, at, i, value) ==
  Outcome(RetDel("value", value, at, i), ClearGap(es, i), n - 1)

del(es, n, key) ==
  LET i == delFind(es, key, hashToIndex(hash(key))) IN
  IF i = -2 THEN Outcome(Ret("TypeError", NoValue, FALSE, 0), es, n)
  ELSE IF i = -1 THEN Outcome(Ret("null", NoValue, FALSE, 0), es, n)
  ELSE
    LET s == delShift(es, i) IN
    IF ~s.ok THEN Outcome(RetDel("TypeError", NoValue, i, s.i), s.entries, n)
    ELSE delFinish(s.entries, n, i, s.i, es[i].value)

\* A scan that yields every slot, the empty ones included.
YieldAll(es, i) == <<[key |-> es[i].key, value |-> es[i].value]>>

\* What a scan yields for slot i: the entry, unless its key is the sentinel.
Yield(es, i) ==
  IF es[i].key # EMPTY_KEY THEN <<[key |-> es[i].key, value |-> es[i].value]>>
  ELSE <<>>

\* for (const entry of entries): the slots from index i upwards.
RECURSIVE scanAscendingFrom(_, _)
scanAscendingFrom(es, i) ==
  IF ~InRange(es, i) THEN <<>>
  ELSE Yield(es, i) \o scanAscendingFrom(es, i + 1)

scanAscending(es) == scanAscendingFrom(es, 0)

\* for (let i = entries.length - 1; i >= 0; i--): the slots from i downwards.
RECURSIVE scanDescendingFrom(_, _)
scanDescendingFrom(es, i) ==
  IF i < 0 THEN <<>>
  ELSE Yield(es, i) \o scanDescendingFrom(es, i - 1)

scanDescending(es) == scanDescendingFrom(es, Cardinality(DOMAIN es) - 1)

RetScan(seq) == [Ret("entries", NoValue, FALSE, 0) EXCEPT !.seq = seq]

(***************************************************************************)
(* The calls, as actions.  op, arg and val record the last call and ret    *)
(* what it returned or threw.                                              *)
(***************************************************************************)
NoRef == [on |-> FALSE, map |-> {}, puts |-> {}]

EmptyRef == [on |-> TRUE, map |-> {}, puts |-> {}]

RefKeys(map) == {p.key : p \in map}

RefHas(map, k) == k \in RefKeys(map)

RefValue(map, k) == (CHOOSE p \in map : p.key = k).value

\* The reference map after the call `name`: put sets the value of the key,
\* getOrPut adds the key without a value if it is new, del removes the key;
\* a new key is refused when CAPACITY keys are held.  puts collects the keys
\* put since the map was last empty.
RefAfter(rf, name, key, value) ==
  IF ~rf.on THEN rf
  ELSE
    LET has == RefHas(rf.map, key)
        full == Cardinality(rf.map) >= CAPACITY
        without == {p \in rf.map : p.key # key}
        map1 ==
          CASE name = "put" ->
                 IF ~has /\ full THEN rf.map
                 ELSE without \cup {[key |-> key, value |-> value]}
            [] name = "getOrPut" ->
                 IF has \/ full THEN rf.map
                 ELSE rf.map \cup {[key |-> key, value |-> NoValue]}
            [] name = "del" -> without
            [] OTHER -> rf.map
        puts1 ==
          IF name \in {"put", "getOrPut"} THEN rf.puts \cup {key} ELSE rf.puts
    IN [on |-> TRUE, map |-> map1, puts |-> IF map1 = {} THEN {} ELSE puts1]

Call(name, key, value, r) ==
  /\ op' = name
  /\ arg' = key
  /\ val' = value
  /\ ret' = r.ret
  /\ entries' = Canonical(r.entries)
  /\ len' = r.len
  /\ ref' = RefAfter(ref, name, key, value)
  /\ UNCHANGED <<CAPACITY, probe>>

Get(k) == Call("get", k, NoValue, Outcome(get(entries, k), entries, len))

GetOrPut(k) == Call("getOrPut", k, NoValue, getOrPut(entries, len, k))

Put(k, v) == Call("put", k, v, put(entries, len, k, v))

Del(k) == Call("del", k, NoValue, del(entries, len, k))

\* A scan run to its end: ret.seq is the sequence of the entries it yielded.
ScanAscending ==
  Call("scanAscending", <<>>, NoValue,
       Outcome(RetScan(scanAscending(entries)), entries, len))

ScanDescending ==
  Call("scanDescending", <<>>, NoValue,
       Outcome(RetScan(scanDescending(entries)), entries, len))

NoProbe == [a |-> <<>>, b |-> <<>>, ia |-> 0, ib |-> 0, done |-> FALSE]

\* The state after the module is loaded, for a capacity of 2^lc.
Construct(lc) ==
  /\ CAPACITY = Pow2(lc)
  /\ entries = EmptyTable(Length)
  /\ len = 0
  /\ op = "none"
  /\ arg = <<>>
  /\ val = NoValue
  /\ ret = NoRet
  /\ probe = NoProbe

Init == Construct(LogCapacity) /\ ref = NoRef

Next ==
  \/ \E k \in Keys :
       \/ Get(k)
       \/ GetOrPut(k)
       \/ \E v \in Values : Put(k, v)
       \/ Del(k)
  \/ ScanAscending
  \/ ScanDescending

Spec == Init /\ [][Next]_vars

(***************************************************************************)
(* SpecHash: hash and hashToIndex as pure functions, with the CAPACITY of  *)
(* the source (1 << 24, SHIFT = 8).  The table plays no part and is not    *)
(* allocated; each step applies hashToIndex(hash(.)) to two keys drawn     *)
(* from HashKeys and records the keys and their indices in `probe`.        *)
(***************************************************************************)
HashBytes == {0, 1, 127, 128, 254}

RECURSIVE SeqsUpTo(_, _)
\* The sequences over S of length at most n.
SeqsUpTo(S, n) ==
  IF n = 0 THEN {<<>>}
  ELSE LET T == SeqsUpTo(S, n - 1) IN T \cup {Append(t, x) : t \in T, x \in S}

HashKeys == SeqsUpTo(HashBytes, MaxHashKeyLen)

InitHash ==
  /\ CAPACITY = Pow2(SourceLogCapacity)
  /\ entries = EmptyTable(0)
  /\ len = 0
  /\ op = "none"
  /\ arg = <<>>
  /\ val = NoValue
  /\ ret = NoRet
  /\ probe = NoProbe
  /\ ref = NoRef

HashToIndex(a, b) ==
  /\ probe' = [a |-> a, b |-> b,
               ia |-> hashToIndex(hash(a)), ib |-> hashToIndex(hash(b)),
               done |-> TRUE]
  /\ op' = "hashToIndex"
  /\ UNCHANGED <<CAPACITY, entries, len, arg, val, ret, ref>>

NextHash == ~probe.done /\ \E a \in HashKeys, b \in HashKeys : HashToIndex(a, b)

SpecHash == InitHash /\ [][NextHash]_vars

(***************************************************************************)
(* SpecOverflow: a table of capacity 2^OverflowLogCapacity, called with    *)
(* the keys "\x7f\x00", "\x7f\x01", ..., which all have the highest ideal *)
(* bucket a storable key can have.  The keys are put in ascending order    *)
(* (the next one is the key numbered len).  Once the last slot of the      *)
(* array is occupied, the smallest key stored is looked up and deleted,    *)
(* and the key just deleted is inserted again.                             *)
(***************************************************************************)
FillKey(b) == <<127, b>>

LastSlotOccupied == entries[Length - 1].key # EMPTY_KEY

FirstKey == entries[Min(Occupied(entries))].key

InitOverflow == Construct(OverflowLogCapacity) /\ ref = EmptyRef

NextOverflow ==
  \/ Put(FillKey(len), 1)
  \/ LastSlotOccupied /\ Get(FirstKey)
  \/ LastSlotOccupied /\ Del(FirstKey)
  \/ op = "del" /\ GetOrPut(arg)
  \/ op = "del" /\ Put(arg, 1)

SpecOverflow == InitOverflow /\ [][NextOverflow]_vars

(***************************************************************************)
(* SpecRef: the table of Spec with the reference map run alongside it, by  *)
(* a caller that, like benchmark.ts, catches nothing: every call of put,   *)
(* del and get is given to both, and the first call that throws ends the   *)
(* run.  The keys are those of Spec and two more whose first byte is 0x80. *)
(***************************************************************************)
HarnessKeys == Keys \cup Prefixes(<<128, 0, 0>>)

InitRef == Construct(LogCapacity) /\ ref = EmptyRef

Threw == ret.kind \in {"TypeError", "MapFull"}

NextRef ==
  /\ ~Threw
  /\ \E k \in HarnessKeys :
       \/ Get(k)
       \/ \E v \in Values : Put(k, v)
       \/ Del(k)

SpecRef == InitRef /\ [][NextRef]_vars

(***************************************************************************)
(* SpecTriple: three keys of one ideal bucket are put into the empty table *)
(* of Spec in any order, the middle one is deleted, and the three are      *)
(* looked up.  The caller goes on after a call that throws; the reference  *)
(* map is given every call.                                                *)
(***************************************************************************)
KeyMin(S) == CHOOSE x \in S : \A y \in S \ {x} : KeyLess(x, y)

KeyMax(S) == CHOOSE x \in S : \A y \in S \ {x} : KeyLess(y, x)

KeyMid(S) == CHOOSE x \in S : x # KeyMin(S) /\ x # KeyMax(S)

InitTriple == Construct(LogCapacity) /\ ref = EmptyRef

NextTriple ==
  \/ /\ Cardinality(ref.puts) < 3
     /\ \E k \in HarnessKeys \ ref.puts, v \in Values :
          /\ \A p \in ref.puts : idealBucket(p) = idealBucket(k)
          /\ Put(k, v)
  \/ /\ Cardinality(ref.puts) = 3
     /\ Cardinality(ref.map) = 3
     /\ Del(KeyMid(ref.puts))
  \/ /\ Cardinality(ref.puts) = 3
     /\ Cardinality(ref.map) = 2
     /\ \E k \in ref.puts : Get(k)

SpecTriple == InitTriple /\ [][NextTriple]_vars

(***************************************************************************)
(* Properties.                                                             *)
(***************************************************************************)
\* The table has the length the source gives it.
TableShape == DOMAIN entries = 0..(Length - 1)

\* Key k is in some slot of the table.
Stored(es, k) == \E i \in DOMAIN es : es[i].key = k

\* C1: reading entries from index 0 upward, the keys of the occupied slots
\* are strictly ascending in byte-wise lexicographic order, in every state
\* reachable by put, getOrPut and del calls on legal keys.
C1_GlobalOrder ==
  \A i \in Occupied(entries), j \in Occupied(entries) :
    i < j => KeyLess(entries[i].key, entries[j].key)

\* C2: every occupied slot i holding key k has i >= hashToIndex(hash(k)),
\* also after the backward shift of del.
C2_Displacement ==
  \A i \in Occupied(entries) : i >= hashToIndex(hash(entries[i].key))

\* A del found its key at one slot and shifted the entries after it back,
\* leaving an entry that is still past its ideal bucket.
C2_Witness ==
  /\ op = "del"
  /\ ret.kind = "value"
  /\ ret.index > ret.at
  /\ \E i \in Occupied(entries) : i > hashToIndex(hash(entries[i].key))

\* C3: len is the number of occupied slots, and never exceeds CAPACITY.
C3_LenCountsOccupied ==
  /\ len = Cardinality(Occupied(entries))
  /\ len <= CAPACITY

\* A del has just removed an entry from a table that held CAPACITY keys.
C3_Witness ==
  /\ op = "del"
  /\ ret.kind = "value"
  /\ len = CAPACITY - 1

\* C4: from a state in which the map is not full, put(k, v) on a legal key
\* completes, and a get(k) made right after it returns v.
C4_RoundTrip ==
  [][(op' = "put" /\ Legal(arg') /\ len < CAPACITY)
       => /\ ret'.kind = "void"
          /\ get(entries', arg').kind = "value"
          /\ get(entries', arg').value = val']_vars

\* C5: after put(k, v); del(k) on a legal key, get(k) returns null.
C5_DeletionRestoresAbsence ==
  [][(op = "put" /\ op' = "del" /\ arg' = arg /\ Legal(arg))
       => get(entries', arg').kind = "null"]_vars

\* C6: after a put(k, v1) that succeeded, put(k, v2) succeeds, get(k) returns
\* v2, and len and the key in every slot are as before the second put.
C6_IdempotentOverwrite ==
  [][(op = "put" /\ ret.kind = "void" /\ op' = "put" /\ arg' = arg /\ Legal(arg))
       => /\ ret'.kind = "void"
          /\ get(entries', arg').kind = "value"
          /\ get(entries', arg').value = val'
          /\ len' = len
          /\ \A i \in DOMAIN entries : entries'[i].key = entries[i].key]_vars

\* C7: put and getOrPut throw the map-full error only when len = CAPACITY and
\* the key is not stored; when len = CAPACITY and the key is stored,
\* getOrPut reports exists and put overwrites without an error.
C7_MapFullOnlyForNewKey ==
  [][(op' \in {"put", "getOrPut"} /\ Legal(arg'))
       => /\ ret'.kind = "MapFull" => (len = CAPACITY /\ ~Stored(entries, arg'))
          /\ (len = CAPACITY /\ Stored(entries, arg'))
               => (ret'.kind \in {"void", "result"} /\ ret'.exists)]_vars

\* C8: when len = CAPACITY and k is not stored, put(k, v) and getOrPut(k)
\* throw the map-full error and leave every slot and len as they were.
C8_MapFullLeavesTable ==
  [][(op' \in {"put", "getOrPut"} /\ Legal(arg')
        /\ len = CAPACITY /\ ~Stored(entries, arg'))
       => /\ ret'.kind = "MapFull"
          /\ entries' = entries
          /\ len' = len]_vars

\* A put of a key that is not stored has just thrown the map-full error on a
\* table holding CAPACITY keys.
C8_Witness ==
  /\ op = "put"
  /\ Legal(arg)
  /\ ret.kind = "MapFull"
  /\ len = CAPACITY
  /\ ~Stored(entries, arg)

\* C9: for every legal key, hashToIndex(hash(key)) is in [0, CAPACITY).
C9_IndexInRange ==
  (probe.done /\ Legal(probe.a)) => probe.ia \in 0..(CAPACITY - 1)

\* C10: for legal keys a < b, hashToIndex(hash(a)) <= hashToIndex(hash(b)).
C10_Monotonic ==
  (probe.done /\ Legal(probe.a) /\ Legal(probe.b) /\ KeyLess(probe.a, probe.b))
    => probe.ia <= probe.ib

Reverse(s) == [n \in 1..Len(s) |-> s[Len(s) + 1 - n]]

\* How many times a scan yielded key k.
TimesYielded(s, k) == Cardinality({n \in 1..Len(s) : s[n].key = k})

\* C11: a completed scanAscending yields keys in strictly increasing order,
\* yields each key that get finds exactly once and no other key, and is the
\* reverse of what scanDescending yields on the same table; a completed
\* scanDescending yields the reverse of scanAscending.
C11_ScanOrder ==
  /\ op = "scanAscending" =>
       /\ \A m \in 1..Len(ret.seq), n \in 1..Len(ret.seq) :
            m < n => KeyLess(ret.seq[m].key, ret.seq[n].key)
       /\ \A n \in 1..Len(ret.seq) : ret.seq[n].key \in Keys
       /\ \A k \in Keys :
            TimesYielded(ret.seq, k)
              = IF get(entries, k).kind = "value" THEN 1 ELSE 0
       /\ scanDescending(entries) = Reverse(ret.seq)
  /\ op = "scanDescending" => ret.seq = Reverse(scanAscending(entries))

C11_Witness ==
  /\ op = "scanDescending"
  /\ Len(ret.seq) = CAPACITY
  /\ \E i \in Occupied(entries) : i > hashToIndex(hash(entries[i].key))

AllSentinel(es) == \A i \in DOMAIN es : es[i].key = EMPTY_KEY

\* C12: when a del removes the last key of the reference map, and at most
\* CAPACITY distinct keys, all legal, were put since the table was last
\* empty, the table is left with len = 0 and the sentinel in every slot.
C12_FullCycleEmpties ==
  [][(/\ ref.on
      /\ op' = "del"
      /\ ref.map # {}
      /\ ref'.map = {}
      /\ Cardinality(ref.puts) <= CAPACITY
      /\ \A k \in ref.puts : Legal(k))
     => (len' = 0 /\ AllSentinel(entries'))]_vars

\* C13: with at most CAPACITY stored keys, no call of get, getOrPut or del on
\* a legal key reads a slot outside of the array (which the call reports by
\* throwing a TypeError, ret.index being the last index it reached).
C13_StaysInsideTable ==
  (op \in {"get", "getOrPut", "del"} /\ Legal(arg) /\ len <= CAPACITY)
    => ret.kind # "TypeError"

\* What get returns for key k when the reference map is `map`.
RefGet(map, k, r) ==
  IF RefHas(map, k) THEN r.kind = "value" /\ r.value = RefValue(map, k)
  ELSE r.kind = "null"

\* C14: after every call, get(k) returns for every legal key k what the
\* reference map holds for k (null if it holds nothing), and del(k) returns
\* what the reference map held for k before the call.
C14_RefinesMap ==
  [][ref.on =>
       /\ \A k \in HarnessKeys :
            Legal(k) => RefGet(ref'.map, k, get(entries', k))
       /\ (op' = "del" /\ Legal(arg')) => RefGet(ref.map, arg', ret')]_vars

\* C15: get of a legal key, and del of a legal key that is not stored, leave
\* every slot and len as they were, and that del returns null instead of
\* throwing.
C15_AbsentLeavesTable ==
  [][/\ (op' = "get" /\ Legal(arg')) => (entries' = entries /\ len' = len)
     /\ (op' = "del" /\ Legal(arg') /\ ~Stored(entries, arg'))
          => (entries' = entries /\ len' = len /\ ret'.kind = "null")]_vars

SameEntry(a, b) == a.key = b.key /\ a.value = b.value

\* The first slot at or after index i that holds the sentinel.
FirstSentinelFrom(es, i) == Min({j \in DOMAIN es : j >= i /\ es[j].key = EMPTY_KEY})

\* C16: when getOrPut(k) returns {exists, index}, slot index holds k and
\* exists tells whether k was stored before the call; if it was, no slot and
\* not len changed; if it was not, len grew by 1, the entries from index up
\* to the first sentinel each moved one slot to the right, and every other
\* slot is unchanged.
C16_GetOrPutResult ==
  [][(op' = "getOrPut" /\ ret'.kind = "result") =>
       /\ entries'[ret'.index].key = arg'
       /\ ret'.exists <=> Stored(entries, arg')
       /\ ret'.exists => (entries' = entries /\ len' = len)
       /\ ~ret'.exists =>
            LET stop == FirstSentinelFrom(entries, ret'.index) IN
            /\ len' = len + 1
            /\ \A i \in ret'.index..(stop - 1) : SameEntry(entries'[i + 1], entries[i])
            /\ \A i \in DOMAIN entries :
                 (i < ret'.index \/ i > stop) => SameEntry(entries'[i], entries[i])]_vars

\* getOrPut("") has just inserted the empty key in front of two stored keys
\* of bucket 0, which it moved to slots 1 and 2.
C16_Witness ==
  /\ op = "getOrPut"
  /\ arg = <<>>
  /\ ret.kind = "result"
  /\ ~ret.exists
  /\ ret.index = 0
  /\ entries[1].key = <<0>>
  /\ entries[2].key = <<0, 0>>

\* C17 as stated: when del's chain terminates with the gap at index i
\* (ret.index), slot i holds the entry that was at i + 1, slot i + 1 holds
\* the sentinel, and len is one less.
C17_GapMovesPastLastCopy ==
  [][(op' = "del" /\ ret'.kind = "value") =>
       /\ entries'[ret'.index].key = entries[ret'.index + 1].key
       /\ entries'[ret'.index + 1].key = EMPTY_KEY
       /\ len' = len - 1]_vars

\* C17, amended: del finds the key at slot ret.at and moves the gap up to
\* slot ret.index, the first slot whose successor holds the sentinel or an
\* entry of a later ideal bucket; the entries in between each moved one slot
\* to the left, slot ret.index holds the sentinel, every other slot (slot
\* ret.index + 1 included) is unchanged, and len is one less.
C17_GapStaysAtStop ==
  [][(op' = "del" /\ ret'.kind = "value") =>
       /\ entries[ret'.at].key = arg'
       /\ \A m \in ret'.at..(ret'.index - 1) :
            SameEntry(entries'[m], entries[m + 1]) /\ ~ShiftStops(entries, m)
       /\ ShiftStops(entries, ret'.index)
       /\ entries'[ret'.index].key = EMPTY_KEY
       /\ \A m \in DOMAIN entries :
            (m < ret'.at \/ m > ret'.index) => SameEntry(entries'[m], entries[m])
       /\ len' = len - 1]_vars

\* A del has just stopped in front of an entry that sits in its ideal bucket.
C17_Witness ==
  /\ op = "del"
  /\ ret.kind = "value"
  /\ entries[ret.index].key = EMPTY_KEY
  /\ entries[ret.index + 1].key # EMPTY_KEY
  /\ hashToIndex(hash(entries[ret.index + 1].key)) = ret.index + 1

\* Slot i of the table holds key k.
Holds(es, i, k) == InRange(es, i) /\ es[i].key = k

\* C18: once three legal keys k1 < k2 < k3 of one ideal bucket b have been
\* put into the empty table, they are in slots b, b + 1, b + 2 in that order
\* and len = 3; once k2 has then been deleted, k1 is in slot b, k3 in slot
\* b + 1, the sentinel in slot b + 2, len = 2, get(k1) and get(k3) return
\* the values put and get(k2) returns null.
C18_ThreeInOneBucket ==
  (Cardinality(ref.puts) = 3 /\ \A k \in ref.puts : Legal(k)) =>
    LET k1 == KeyMin(ref.puts)
        k2 == KeyMid(ref.puts)
        k3 == KeyMax(ref.puts)
        b == idealBucket(k1)
    IN /\ RefKeys(ref.map) = {k1, k2, k3} =>
            /\ Holds(entries, b, k1)
            /\ Holds(entries, b + 1, k2)
            /\ Holds(entries, b + 2, k3)
            /\ len = 3
       /\ RefKeys(ref.map) = {k1, k3} =>
            /\ Holds(entries, b, k1)
            /\ Holds(entries, b + 1, k3)
            /\ Holds(entries, b + 2, EMPTY_KEY)
            /\ len = 2
            /\ RefGet(ref.map, k1, get(entries, k1))
            /\ RefGet(ref.map, k3, get(entries, k3))
            /\ get(entries, k2).kind = "null"

\* C19: for every occupied slot i holding key k, every slot from the ideal
\* bucket of k up to i is occupied, and get(k) finds k.
C19_ProbePathContiguous ==
  \A i \in Occupied(entries) :
    /\ \A j \in idealBucket(entries[i].key)..i : j \in Occupied(entries)
    /\ get(entries, entries[i].key).kind = "value"

\* A del has just moved an entry one slot to the left, and the entry is
\* still behind its ideal bucket.
C19_Witness ==
  /\ op = "del"
  /\ ret.kind = "value"
  /\ \E i \in Occupied(entries) :
       /\ ret.at <= i
       /\ i < ret.index
       /\ idealBucket(entries[i].key) < i

\* The key-value pairs stored in the table.
Pairs(es) == {[key |-> es[i].key, value |-> es[i].value] : i \in Occupied(es)}

\* The pair of S with the smallest key (up) or the greatest key (not up).
NextPair(S, up) ==
  CHOOSE p \in S : p.key = IF up THEN KeyMin(RefKeys(S)) ELSE KeyMax(RefKeys(S))

\* The table after the pairs of S are put into table es, in ascending or in
\* descending order of their keys.
RECURSIVE PutAll(_, _, _, _)
PutAll(es, n, S, up) ==
  IF S = {} THEN Outcome(NoRet, es, n)
  ELSE LET p == NextPair(S, up)
           r == put(es, n, p.key, p.value)
       IN PutAll(Canonical(r.entries), r.len, S \ {p}, up)

SameTable(es1, es2) ==
  /\ DOMAIN es1 = DOMAIN es2
  /\ \A i \in DOMAIN es1 : SameEntry(es1[i], es2[i])

\* C20: the table holds in every slot the key and value that putting its
\* stored pairs into the empty table gives, whether they are put in
\* ascending or in descending key order, and len is their number: the
\* layout depends on the stored pairs alone, not on the calls that led to
\* them.
C20_HistoryIndependent ==
  \A up \in BOOLEAN :
    LET built == PutAll(EmptyTable(Length), 0, Pairs(entries), up) IN
    /\ SameTable(entries, built.entries)
    /\ len = built.len

\* A del has just shifted entries back in a table that still holds
\* CAPACITY - 1 keys, not all with the same value.
C20_Witness ==
  /\ op = "del"
  /\ ret.kind = "value"
  /\ ret.index > ret.at
  /\ len = CAPACITY - 1
  /\ \E i \in Occupied(entries), j \in Occupied(entries) :
       entries[i].value # entries[j].value

====
